---- MODULE Spec2Model ----
(***************************************************************************)
(* A model of modifyPPTXGenAI.py: the duplicate-asset pruner               *)
(* (remove_repetitive_images), the reference repair of clean_pptx on the   *)
(* fixed working directory temp_pptx, and the pipeline run by main.        *)
(***************************************************************************)
EXTENDS Integers, Sequences, FiniteSets, TLC

\* ------------------------------------------------------------------ bounds
\* Slides of an input container (slide1.xml .. slide<MaxSlides>.xml).
MaxSlides == 2
\* Media files of a container (ppt/media/image1 .. image<MaxFiles>).
MaxFiles == 1
\* Distinct file contents (SHA-1 digests) of a container's media files.
MaxHashes == 1
\* Relationship ids of one .rels document (rId1 .. rId<MaxIds>).
MaxIds == 1
\* Picture elements of one slide document.
MaxPics == 1
\* clean_pptx runs on a fresh input container, and on an earlier output.
MaxRuns == 2
MaxReruns == 1
\* Slide count, directory size and distinct contents of one call of
\* remove_repetitive_images taken by itself.
PruneMaxSlides == 10
PruneMaxFiles == 11
PruneMaxHashes == 2

SlideNos == 1..MaxSlides
Files == 1..MaxFiles
Hashes == 1..MaxHashes
Ids == 1..MaxIds
\* The content of a name that is no regular file of the directory.
NoFile == 0
\* A picture element without an a:blip child (pic.find returns None).
NoBlip == 0

\* --------------------------------------------------------------- documents
\* A relationship Target, as its directory segments and its file:
\* "../media/image<f>" and "/ppt/media/image<f>" (the leading "/" is an empty
\* first segment), and the slide layout every slide refers to.
ParentTarget(f) == [segs |-> <<"..", "media">>, file |-> f]
AbsoluteTarget(f) == [segs |-> <<"", "ppt", "media">>, file |-> f]
LayoutTarget == [segs |-> <<"..", "slideLayouts">>, file |-> NoFile]
ImageTargets == {ParentTarget(f) : f \in Files} \cup {AbsoluteTarget(f) : f \in Files}

Relationships ==
    [Id : Ids, Type : {"image"}, Target : ImageTargets]
        \cup [Id : Ids, Type : {"slideLayout"}, Target : {LayoutTarget}]

\* The Relationship children of a .rels root: ids are unique in a document.
RelsDocs ==
    {rs \in SUBSET Relationships : \A a, b \in rs : a.Id = b.Id => a = b}

\* The p:pic elements of a slide, each by the r:embed id of its blip.
PicSeqs == UNION {[1..n -> Ids \cup {NoBlip}] : n \in 0..MaxPics}

AbsentSlide == [present |-> FALSE, parses |-> TRUE, rels |-> {}, pics |-> <<>>]
\* A slide whose .rels document is not well-formed XML.
MalformedSlide == [present |-> TRUE, parses |-> FALSE, rels |-> {}, pics |-> <<>>]
SlideDocs ==
    [present : {TRUE}, parses : {TRUE}, rels : RelsDocs, pics : PicSeqs]
        \cup {MalformedSlide}

\* A zip container: presentation.xml (by the number of slides it lists),
\* slide<i>.xml with its slide<i>.xml.rels, and the media files by content.
SlidesOf(n) ==
    {[i \in SlideNos |-> IF i <= n THEN docs[i] ELSE AbsentSlide] :
        docs \in [1..n -> SlideDocs]}
Containers ==
    UNION {[pres : {n}, slides : SlidesOf(n), media : [Files -> Hashes \cup {NoFile}]] :
        n \in 0..MaxSlides}

NoContainer ==
    [pres |-> 0, slides |-> [i \in SlideNos |-> AbsentSlide],
     media |-> [f \in Files |-> NoFile]]

\* The entry names of an archive.
Entries(c) ==
    {<<"ppt/presentation.xml", 0>>}
        \cup {<<"ppt/slides/slide", i>> : i \in {j \in SlideNos : c.slides[j].present}}
        \cup {<<"ppt/slides/_rels/slide", i>> : i \in {j \in SlideNos : c.slides[j].present}}
        \cup {<<"ppt/media/image", f>> : f \in {g \in Files : c.media[g] # NoFile}}

\* The directory temp_pptx: absent, or the files extracted into it.
NoDir ==
    [exists |-> FALSE, mediaDir |-> FALSE, pres |-> 0,
     slides |-> [i \in SlideNos |-> AbsentSlide],
     media |-> [f \in Files |-> NoFile]]

NoArchive == [written |-> FALSE, content |-> NoContainer]

VARIABLES
    work,        \* the working directory temp_pptx
    input,       \* the container at pptx_path of the current run
    output,      \* the archive at output_path, once written
    pc,          \* position of clean_pptx: idle, extracted, repair, done, failed
    todo,        \* .rels files of os.listdir still to be visited by the loop
    err,         \* the exception that ended the current run
    removed,     \* what the current run removed: relationships, pictures, media
    missingPic,  \* the run met a picture embedding a removed relationship
    fromOutput,  \* the current run's input is the output of an earlier run
    runs,
    reruns,
    mpc,         \* position of main after clean_pptx
    failures,    \* the steps of main that failed
    log,         \* the failures an except clause printed
    pdfs,        \* the PDF files the converter produced
    slideCount,  \* num_slides of a call of remove_repetitive_images by itself
    mediaBefore, \* its image_dir before the call
    mediaAfter,  \* and after
    pruneDone

cleanvars == <<work, input, output, pc, todo, err, removed, missingPic, fromOutput, runs, reruns>>
mainvars == <<mpc, failures, log, pdfs>>
prunevars == <<slideCount, mediaBefore, mediaAfter, pruneDone>>
vars == <<cleanvars, mainvars, prunevars>>

\* ------------------------------------------------- remove_repetitive_images
\* hash_counts[file_hash] of the directory listing.
hash_counts(dir, h) == Cardinality({f \in DOMAIN dir : dir[f] = h})

\* The comparison as "at least the threshold".
ExceedsThreshold_AtLeast(count, num_slides) == 10 * count >= 8 * num_slides

\* The comparison as "repeated, and over the threshold".
ExceedsThreshold_Repeated(count, num_slides) ==
    count > 1 /\ 10 * count > 8 * num_slides

\* hash_counts[file_hash] > threshold, with threshold = 0.8 * num_slides.  The
\* double 0.8 * n is the integer 4n/5 exactly when 5 divides n and is no
\* integer otherwise, so the comparison with an integer count is that of
\* 10 * count with 8 * n.
ExceedsThreshold(count, num_slides) == 10 * count > 8 * num_slides

\* The directory after the deletions: every file of a group over the threshold.
remove_repetitive_images(num_slides, dir) ==
    [f \in DOMAIN dir |->
        IF dir[f] # NoFile /\ ExceedsThreshold(hash_counts(dir, dir[f]), num_slides)
        THEN NoFile ELSE dir[f]]

Deleted(before, after) == {f \in DOMAIN before : before[f] # NoFile /\ after[f] = NoFile}

\* ------------------------------------------------------------- clean_pptx
\* zip_ref.extractall(temp_dir) after os.makedirs(temp_dir, exist_ok=True):
\* every entry of the archive is written, whatever else the directory holds stays.
extractall(w, c) ==
    [exists |-> TRUE,
     mediaDir |-> w.mediaDir \/ (\E f \in Files : c.media[f] # NoFile),
     pres |-> c.pres,
     slides |-> [i \in SlideNos |-> IF c.slides[i].present THEN c.slides[i] ELSE w.slides[i]],
     media |-> [f \in Files |-> IF c.media[f] # NoFile THEN c.media[f] ELSE w.media[f]]]

\* 'image' in relationship.attrib['Type']
IsImageType(type) == type = "image"

\* Target.lstrip('/'): the leading empty segments go.
RECURSIVE lstrip(_)
lstrip(segs) ==
    IF segs # <<>> /\ Head(segs) = "" THEN lstrip(Tail(segs)) ELSE segs

\* .replace('../', ''): every parent segment goes.
StripParents(segs) == SelectSeq(segs, LAMBDA s : s # "..")

\* image_path, relative to temp_dir: os.path.join(temp_dir, 'ppt', target).
image_path(target) ==
    [segs |-> StripParents(<<"ppt">> \o lstrip(target.segs)), file |-> target.file]

\* The existence test on the directory of image_path instead of the file.
PathExists_DirOnly(w, path) ==
    /\ path.segs = <<"ppt", "media">>
    /\ w.mediaDir

\* os.path.exists(image_path) in the working directory.
PathExists(w, path) ==
    /\ path.segs = <<"ppt", "media">>
    /\ path.file \in Files
    /\ w.media[path.file] # NoFile

\* The ids the relationship loop appends to removed_ids.
removed_ids(w, rels) ==
    {r.Id : r \in {x \in rels : IsImageType(x.Type) /\ ~PathExists(w, image_path(x.Target))}}

\* The pictures the slide loop reaches pic.getparent() for.
Embedding(pics, ids) == {k \in 1..Len(pics) : pics[k] # NoBlip /\ pics[k] \in ids}

\* The walk of the repacker: every file of the directory becomes an entry.
Repack(w) ==
    [written |-> TRUE,
     content |-> [pres |-> w.pres, slides |-> w.slides, media |-> w.media]]

Zero == [rels |-> 0, pics |-> 0, media |-> 0]

Begin(c, isOutput) ==
    /\ input' = c
    /\ fromOutput' = isOutput
    /\ work' = extractall(work, c)
    /\ pc' = "extracted"
    /\ todo' = {}
    /\ err' = "none"
    /\ removed' = Zero
    /\ missingPic' = FALSE
    /\ UNCHANGED <<output, mainvars, prunevars>>

\* clean_pptx(pptx_path, output_path) on a container that exists: lines 211-218.
Start ==
    /\ pc \in {"idle", "done", "failed"}
    /\ runs < MaxRuns
    /\ runs' = runs + 1
    /\ UNCHANGED reruns
    /\ \E c \in Containers : Begin(c, FALSE)

\* clean_pptx on the archive an earlier run wrote.
Rerun ==
    /\ pc \in {"idle", "done", "failed"}
    /\ output.written
    /\ reruns < MaxReruns
    /\ reruns' = reruns + 1
    /\ UNCHANGED runs
    /\ Begin(output.content, TRUE)

\* clean_pptx on a path that does not exist: FileNotFoundError, line 212.
StartMissing ==
    /\ pc \in {"idle", "done", "failed"}
    /\ runs < MaxRuns
    /\ runs' = runs + 1
    /\ input' = NoContainer
    /\ fromOutput' = FALSE
    /\ pc' = "failed"
    /\ err' = "FileNotFoundError"
    /\ todo' = {}
    /\ removed' = Zero
    /\ missingPic' = FALSE
    /\ UNCHANGED <<work, output, reruns, mainvars, prunevars>>

\* remove_repetitive_images(pptx_path, image_dir), then the listing of
\* ppt/slides/_rels that the repair loop iterates: lines 220-229.
Prune ==
    /\ pc = "extracted"
    /\ IF ~work.mediaDir
       THEN \* os.listdir(image_dir) raises
            /\ pc' = "failed"
            /\ err' = "FileNotFoundError"
            /\ UNCHANGED <<work, todo, removed>>
       ELSE LET after == remove_repetitive_images(input.pres, work.media)
                listed == {i \in SlideNos : work.slides[i].present}
            IN  /\ work' = [work EXCEPT !.media = after]
                /\ removed' = [removed EXCEPT !.media = Cardinality(Deleted(work.media, after))]
                /\ IF listed = {}
                   THEN \* os.listdir of the missing _rels directory raises
                        /\ pc' = "failed"
                        /\ err' = "FileNotFoundError"
                        /\ UNCHANGED todo
                   ELSE /\ pc' = "repair"
                        /\ todo' = listed
                        /\ UNCHANGED err
    /\ UNCHANGED <<input, output, missingPic, fromOutput, runs, reruns, mainvars, prunevars>>

\* One iteration of the loop over the .rels files: lines 229-257.
RepairSlide(s) ==
    /\ pc = "repair"
    /\ s \in todo
    /\ LET slide == work.slides[s]
           ids == removed_ids(work, slide.rels)
           kept == {r \in slide.rels : r.Id \notin ids}
           hit == Embedding(slide.pics, ids)
       IN  IF ~slide.parses
           THEN \* ET.parse of the .rels document raises
                /\ pc' = "failed"
                /\ err' = "ParseError"
                /\ UNCHANGED <<work, removed, todo, missingPic>>
           ELSE \* tree.write of the .rels document
                /\ work' = [work EXCEPT !.slides[s].rels = kept]
                /\ removed' = [removed EXCEPT !.rels = @ + Cardinality(ids)]
                /\ IF hit # {}
                   THEN \* an Element of xml.etree.ElementTree has no getparent()
                        /\ pc' = "failed"
                        /\ err' = "AttributeError"
                        /\ missingPic' = TRUE
                        /\ UNCHANGED todo
                   ELSE \* slide_tree.write of the unchanged slide document
                        /\ todo' = todo \ {s}
                        /\ UNCHANGED <<pc, err, missingPic>>
    /\ UNCHANGED <<input, output, fromOutput, runs, reruns, mainvars, prunevars>>

\* The archive is written and the working directory removed: lines 259-264.
Finish ==
    /\ pc = "repair"
    /\ todo = {}
    /\ output' = Repack(work)
    /\ work' = NoDir
    /\ pc' = "done"
    /\ UNCHANGED <<input, todo, err, removed, missingPic, fromOutput, runs, reruns>>
    /\ UNCHANGED <<mainvars, prunevars>>

\* ------------------------------------------------------------------ main
\* convert_pptx_to_pdf without its try.
Caught_InterleaveOnly(step) == step = "interleave_io"

\* Whether the exception of a step is raised inside a try whose except clause
\* prints it: subprocess.run in convert_pptx_to_pdf, and the reading and
\* writing of interleave_pdfs.
Caught(step) == step \in {"convert", "interleave_io"}

\* A step of main raises: the except clause prints, or main ends.
Raise(step, next) ==
    /\ failures' = failures \cup {step}
    /\ IF Caught(step)
       THEN log' = log \cup {step} /\ mpc' = next
       ELSE log' = log /\ mpc' = "aborted"

Pass(next) == mpc' = next /\ UNCHANGED <<failures, log>>

\* create_notes_slides(new_filename, notes_filename): the cleaned deck exists,
\* Presentation() and save() may raise.
CreateNotes(ok) ==
    /\ pc = "done"
    /\ mpc = "clean"
    /\ IF ok THEN Pass("load") ELSE Raise("create_notes", "load")
    /\ UNCHANGED <<cleanvars, pdfs, prunevars>>

\* Presentation(new_filename) and modify_presentation_spacing: lines 435-437.
LoadSlides(ok) ==
    /\ mpc = "load"
    /\ IF ok THEN Pass("save") ELSE Raise("load", "save")
    /\ UNCHANGED <<cleanvars, pdfs, prunevars>>

\* presentation.save(new_filename): line 443.
SaveSlides(ok) ==
    /\ mpc = "save"
    /\ IF ok THEN Pass("convert_slides") ELSE Raise("save", "convert_slides")
    /\ UNCHANGED <<cleanvars, pdfs, prunevars>>

\* convert_pptx_to_pdf on a deck that was just saved: the converter writes
\* the PDF, or cannot be started (subprocess.run raises), or exits non-zero
\* (subprocess.run without check returns as after a success).
Convert(at, pdf, next, outcome) ==
    /\ mpc = at
    /\ \/ /\ outcome = "converted"
          /\ pdfs' = pdfs \cup {pdf}
          /\ Pass(next)
       \/ /\ outcome = "raises"
          /\ pdfs' = pdfs
          /\ Raise("convert", next)
       \/ /\ outcome = "exit_nonzero"
          /\ pdfs' = pdfs
          /\ failures' = failures \cup {"convert"}
          /\ log' = log
          /\ mpc' = next
    /\ UNCHANGED <<cleanvars, prunevars>>

ConvertSlides(outcome) == Convert("convert_slides", "braille.pdf", "notes", outcome)

\* Presentation(notes_filename) and notes_presentation.save: lines 447-450.
ResaveNotes(ok) ==
    /\ mpc = "notes"
    /\ IF ok THEN Pass("convert_notes") ELSE Raise("resave_notes", "convert_notes")
    /\ UNCHANGED <<cleanvars, pdfs, prunevars>>

ConvertNotes(outcome) == Convert("convert_notes", "notes.pdf", "interleave", outcome)

\* interleave_pdfs(file1, file2, output_file): lines 402-422.
Interleave(ok) ==
    /\ mpc = "interleave"
    /\ IF pdfs # {"braille.pdf", "notes.pdf"}
       THEN Raise("missing_pdf", "completed")
       ELSE IF ok THEN Pass("completed") ELSE Raise("interleave_io", "completed")
    /\ UNCHANGED <<cleanvars, pdfs, prunevars>>

\* --------------------------------------- remove_repetitive_images by itself
PruneDirs == UNION {[1..k -> 1..PruneMaxHashes] : k \in 0..PruneMaxFiles}

PruneCall ==
    /\ ~pruneDone
    /\ mediaAfter' = remove_repetitive_images(slideCount, mediaBefore)
    /\ pruneDone' = TRUE
    /\ UNCHANGED <<slideCount, mediaBefore, cleanvars, mainvars>>

\* ------------------------------------------------------------ specifications
InitClean ==
    /\ work = NoDir
    /\ input = NoContainer
    /\ output = NoArchive
    /\ pc = "idle"
    /\ todo = {}
    /\ err = "none"
    /\ removed = Zero
    /\ missingPic = FALSE
    /\ fromOutput = FALSE
    /\ runs = 0
    /\ reruns = 0

InitMain ==
    /\ mpc = "clean"
    /\ failures = {}
    /\ log = {}
    /\ pdfs = {}

InitPrune ==
    /\ slideCount = 0
    /\ mediaBefore = <<>>
    /\ mediaAfter = <<>>
    /\ pruneDone = FALSE

Init == InitClean /\ InitMain /\ InitPrune

\* Runs of clean_pptx, one after the other, in one current directory.
Next ==
    \/ Start
    \/ Rerun
    \/ StartMissing
    \/ Prune
    \/ \E s \in SlideNos : RepairSlide(s)
    \/ Finish

Spec == Init /\ [][Next]_vars

\* One run of main in a current directory without temp_pptx.
NextMain ==
    \/ runs = 0 /\ Start
    \/ runs = 0 /\ StartMissing
    \/ Prune
    \/ \E s \in SlideNos : RepairSlide(s)
    \/ Finish
    \/ \E ok \in BOOLEAN : CreateNotes(ok)
    \/ \E ok \in BOOLEAN : LoadSlides(ok)
    \/ \E ok \in BOOLEAN : SaveSlides(ok)
    \/ \E o \in {"converted", "raises", "exit_nonzero"} : ConvertSlides(o)
    \/ \E ok \in BOOLEAN : ResaveNotes(ok)
    \/ \E o \in {"converted", "raises", "exit_nonzero"} : ConvertNotes(o)
    \/ \E ok \in BOOLEAN : Interleave(ok)

SpecMain == Init /\ [][NextMain]_vars

\* One call of remove_repetitive_images on any directory and slide count.
InitPruneCall ==
    /\ InitClean
    /\ InitMain
    /\ slideCount \in 0..PruneMaxSlides
    /\ mediaBefore \in PruneDirs
    /\ mediaAfter = mediaBefore
    /\ pruneDone = FALSE

SpecPrune == InitPruneCall /\ [][PruneCall]_vars

\* ------------------------------------------------------------------ claims
LoopFinished == pc = "repair" /\ todo = {}

ImageRels(slide) == {r \in slide.rels : IsImageType(r.Type)}

\* C1: once the repair loop has finished, every image relationship left in a
\* slide's .rels document has a target whose file exists in the media
\* directory of the package, in the working directory and in the archive
\* written from it.
C1_ImageRelsResolve ==
    /\ LoopFinished =>
         \A i \in SlideNos : \A r \in ImageRels(work.slides[i]) :
             work.media[r.Target.file] # NoFile
    /\ pc = "done" =>
         \A i \in SlideNos : \A r \in ImageRels(output.content.slides[i]) :
             output.content.media[r.Target.file] # NoFile

\* The loop finished after removing a relationship and keeping another one.
C1_Witness ==
    /\ LoopFinished
    /\ removed.rels > 0
    /\ \E i \in SlideNos : ImageRels(work.slides[i]) # {}

\* C2: after the repair loop every picture element left in a slide embeds the
\* id of a relationship of that slide's .rels document, also when the input
\* held a picture whose embed id is in no relationship entry.
C2_PicsReferToRels ==
    LoopFinished =>
        \A i \in SlideNos : \A k \in 1..Len(work.slides[i].pics) :
            work.slides[i].pics[k] # NoBlip =>
                work.slides[i].pics[k] \in {r.Id : r \in work.slides[i].rels}

\* C3: a run that meets a picture embedding an image relationship whose file
\* is missing completes without error (and goes on to write the archive).
C3_MissingPictureRepaired == missingPic => pc # "failed"

\* C4: a run of clean_pptx on the output of an earlier run removes no
\* relationship entry and no picture element and deletes no media file.
C4_Idempotent == fromOutput => removed = Zero

NoMissingReference(c) ==
    \A i \in SlideNos : \A r \in ImageRels(c.slides[i]) : c.media[r.Target.file] # NoFile

\* C7: for an input without a missing image reference and without a pruned
\* media file, the archive written has exactly the input's entry names and
\* every slide and .rels document holds what it held in the input.
C7_RoundTrip ==
    (pc = "done" /\ NoMissingReference(input) /\ removed.media = 0) =>
        /\ Entries(output.content) = Entries(input)
        /\ \A i \in SlideNos : input.slides[i].present =>
               output.content.slides[i] = input.slides[i]

\* C9: the archive of a successful run holds only entries of that run's own
\* input container, whatever runs came before it.
C9_OnlyOwnEntries == pc = "done" => Entries(output.content) \subseteq Entries(input)

FailedSteps == failures \cup (IF pc = "failed" THEN {"clean_pptx"} ELSE {})
Terminated == pc = "failed" \/ mpc = "aborted"

\* C8: every failure of a step of main ends the pipeline, except a failure of
\* the PDF conversion, which is logged and after which main goes on.
C8_OnlyConversionContinues ==
    /\ FailedSteps \ {"convert"} # {} => Terminated
    /\ Terminated => FailedSteps \ {"convert"} # {}

\* C8 as amended: the pipeline ends exactly on the failures other than those
\* of the PDF conversion and of the reading and writing of the interleaving;
\* only these two are logged, the second always, and main then completes.
C8_LoggedFailuresContinue ==
    /\ FailedSteps \ {"convert", "interleave_io"} # {} <=> Terminated
    /\ log \subseteq failures \cap {"convert", "interleave_io"}
    /\ "interleave_io" \in failures => "interleave_io" \in log /\ mpc = "completed"

\* main completed although the interleaving failed to read or write.
C8_Witness == mpc = "completed" /\ "interleave_io" \in log

GroupSize(f) == hash_counts(mediaBefore, mediaBefore[f])

\* C5: a call deletes every file of a content group of more than 0.8 * N files
\* and no file of a group of at most 0.8 * N files; with N = 10 a group of 9
\* goes and a group of 2 or of 8 stays.
C5_ThresholdRule ==
    pruneDone =>
        \A f \in DOMAIN mediaBefore :
            /\ 5 * GroupSize(f) > 4 * slideCount => mediaAfter[f] = NoFile
            /\ 5 * GroupSize(f) <= 4 * slideCount => mediaAfter[f] = mediaBefore[f]
            /\ (slideCount = 10 /\ GroupSize(f) = 9) => mediaAfter[f] = NoFile
            /\ (slideCount = 10 /\ GroupSize(f) \in {2, 8}) => mediaAfter[f] = mediaBefore[f]

\* Ten slides, a content occurring 9 times and another occurring twice.
C5_Witness ==
    /\ pruneDone
    /\ slideCount = 10
    /\ \E f, g \in DOMAIN mediaBefore :
        /\ GroupSize(f) = 9 /\ mediaAfter[f] = NoFile
        /\ GroupSize(g) = 2 /\ mediaAfter[g] = mediaBefore[g]

\* C6: with zero slides a call deletes no file.
C6_NoPruningAtZero == (pruneDone /\ slideCount = 0) => mediaAfter = mediaBefore

\* C6 as amended: with zero slides the threshold is 0 and a call deletes every
\* file of the directory.
C6_AllPrunedAtZero ==
    (pruneDone /\ slideCount = 0) =>
        \A f \in DOMAIN mediaBefore : mediaAfter[f] = NoFile

\* Zero slides, a file of unique content and a repeated content, all deleted.
C6_Witness ==
    /\ pruneDone
    /\ slideCount = 0
    /\ \E f, g \in DOMAIN mediaBefore : GroupSize(f) = 1 /\ GroupSize(g) > 1
    /\ \A f \in DOMAIN mediaBefore : mediaAfter[f] = NoFile

\* C10: with at least one slide a call never deletes a file whose content
\* occurs exactly once in the directory.
C10_UniqueFilesKept ==
    (pruneDone /\ slideCount >= 1) =>
        \A f \in DOMAIN mediaBefore : GroupSize(f) = 1 => mediaAfter[f] = mediaBefore[f]

====
